---- MODULE Spec2Model ----
(***************************************************************************)
(* remove_cards.py: delete the "Optimization Results" column and the       *)
(* "Unified Forecast Bands" card from app/company/[ticker]/timing/page.tsx *)
(* with two re.sub calls, then write the file back.                        *)
(*                                                                         *)
(* A document is a sequence of one-character strings.  re.sub is modelled  *)
(* the way the backtracking engine runs the two patterns                   *)
(*     \s*<start literal>.*?</div>\s*</div>      (flags=re.DOTALL)         *)
(* greedy \s*, lazy .*?, leftmost match, all non-overlapping matches.      *)
(***************************************************************************)
EXTENDS Integers, Sequences, FiniteSets, TLC

\* ------------------------------------------------------------------------
\* Literals of the two patterns
\* ------------------------------------------------------------------------

\* the literal part "{/* Right Column: Optimization Results */}" of the pattern
OPT_START ==
    << "{", "/", "*", " ", "R", "i", "g", "h", "t", " ", "C", "o", "l", "u",
       "m", "n", ":", " ", "O", "p", "t", "i", "m", "i", "z", "a", "t", "i",
       "o", "n", " ", "R", "e", "s", "u", "l", "t", "s", " ", "*", "/", "}" >>

\* the literal part "{/* Unified Forecast Bands Card - Full Width */}"
FB_START ==
    << "{", "/", "*", " ", "U", "n", "i", "f", "i", "e", "d", " ", "F", "o",
       "r", "e", "c", "a", "s", "t", " ", "B", "a", "n", "d", "s", " ", "C",
       "a", "r", "d", " ", "-", " ", "F", "u", "l", "l", " ", "W", "i", "d",
       "t", "h", " ", "*", "/", "}" >>

\* the literal "</div>", used twice at the end of both patterns
CLOSE_DIV ==
    << "<", "/", "d", "i", "v", ">" >>

\* characters matched by \s (of the characters the documents here are made of)
Whitespace == {" ", "\t", "\n", "\r", "\f"}


\* ------------------------------------------------------------------------
\* The regular-expression engine on the two patterns
\* ------------------------------------------------------------------------

\* the literal lit matches s at position i
LitAt(lit, s, i) ==
    /\ i >= 1
    /\ i + Len(lit) - 1 <= Len(s)
    /\ \A k \in 1..Len(lit) : s[i + k - 1] = lit[k]

\* greedy \s*: the position just after the longest run of whitespace at i
RECURSIVE WsRunEnd(_, _)
WsRunEnd(s, i) ==
    IF i <= Len(s) /\ s[i] \in Whitespace THEN WsRunEnd(s, i + 1) ELSE i

Largest(S) == CHOOSE x \in S : \A y \in S : y <= x
Smallest(S) == CHOOSE x \in S : \A y \in S : x <= y

\* </div>\s*</div> tried at position j: the position just after the match,
\* 0 when it does not match there.  \s* takes the longest run and gives
\* characters back until the second </div> matches.
EndMarkerAt(s, j) ==
    IF ~LitAt(CLOSE_DIV, s, j) THEN 0
    ELSE LET from == j + Len(CLOSE_DIV)
             stops == {w \in from..WsRunEnd(s, from) : LitAt(CLOSE_DIV, s, w)}
         IN  IF stops = {} THEN 0 ELSE Largest(stops) + Len(CLOSE_DIV)

\* variant: .* in place of .*?, the greedy star runs to the last position
\* where the rest of the pattern matches
GreedyToEndMarker(s, p) ==
    LET at == {j \in p..Len(s) : EndMarkerAt(s, j) # 0}
    IN  IF at = {} THEN 0 ELSE EndMarkerAt(s, Largest(at))

\* variant: (</div>\s*</div>|\Z) in place of the end marker, a block with no
\* end marker runs to the end of the document
ToEndMarkerOrEnd(s, p) ==
    LET at == {j \in p..Len(s) : EndMarkerAt(s, j) # 0}
    IN  IF at = {} THEN Len(s) + 1 ELSE EndMarkerAt(s, Smallest(at))

\* variant: no re.DOTALL, the dot stops at a newline
ToEndMarkerOnLine(s, p) ==
    LET at == {j \in p..Len(s) :
                  /\ EndMarkerAt(s, j) # 0
                  /\ \A k \in p..(j - 1) : s[k] # "\n"}
    IN  IF at = {} THEN 0 ELSE EndMarkerAt(s, Smallest(at))

\* .*? with DOTALL followed by the end marker, tried from position p: every
\* character is allowed, and the lazy star stops at the first position where
\* the rest of the pattern matches.  0 when there is none.
LazyToEndMarker(s, p) ==
    LET at == {j \in p..Len(s) : EndMarkerAt(s, j) # 0}
    IN  IF at = {} THEN 0 ELSE EndMarkerAt(s, Smallest(at))

\* variant: the pattern without its leading \s*
MatchAtNoSpace(start, s, i) ==
    IF LitAt(start, s, i) THEN LazyToEndMarker(s, i + Len(start)) ELSE 0

\* the whole pattern tried at position i: the position just after the match,
\* 0 when it does not match there
MatchAt(start, s, i) ==
    LET stops == {w \in i..WsRunEnd(s, i) :
                     /\ LitAt(start, s, w)
                     /\ LazyToEndMarker(s, w + Len(start)) # 0}
    IN  IF stops = {} THEN 0
        ELSE LazyToEndMarker(s, Largest(stops) + Len(start))

\* leftmost match at or after pos: <<first position, position after it>>,
\* <<0, 0>> when there is none
Search(start, s, pos) ==
    LET at == {i \in pos..Len(s) : MatchAt(start, s, i) # 0}
    IN  IF at = {} THEN <<0, 0>>
        ELSE <<Smallest(at), MatchAt(start, s, Smallest(at))>>

\* variant: re.sub(pattern, '', s, count=1), the first match only
SubFromOnce(start, s, pos) ==
    LET m == Search(start, s, pos)
    IN  IF m[1] = 0 THEN SubSeq(s, pos, Len(s))
        ELSE SubSeq(s, pos, m[1] - 1) \o SubSeq(s, m[2], Len(s))

\* variant: re.sub(pattern, ' ', s), a space left where each match was
RECURSIVE SubFromSpace(_, _, _)
SubFromSpace(start, s, pos) ==
    LET m == Search(start, s, pos)
    IN  IF m[1] = 0 THEN SubSeq(s, pos, Len(s))
        ELSE SubSeq(s, pos, m[1] - 1) \o <<" ">> \o SubFromSpace(start, s, m[2])

\* re.sub(pattern, '', s) from position pos on: every non-overlapping match,
\* left to right, is replaced by the empty string (count defaults to 0 = all)
RECURSIVE SubFrom(_, _, _)
SubFrom(start, s, pos) ==
    LET m == Search(start, s, pos)
    IN  IF m[1] = 0 THEN SubSeq(s, pos, Len(s))
        ELSE SubSeq(s, pos, m[1] - 1) \o SubFrom(start, s, m[2])

ReSub(start, s) == SubFrom(start, s, 1)

remove_optimization_result_section(content) == ReSub(OPT_START, content)

\* variant: the pattern \s*{/\*.*?</div>\s*</div>, any comment opens a block
remove_any_comment_section(content) == ReSub(SubSeq(FB_START, 1, 3), content)

remove_forecast_bands_section(content) == ReSub(FB_START, content)

\* ------------------------------------------------------------------------
\* Text files: open(file_path, 'r' / 'w', encoding='utf-8'), newline=None
\* ------------------------------------------------------------------------

\* f.read() in text mode: universal newlines, "\r\n" and "\r" become "\n"
ReadText(raw) ==
    LET kept == SelectSeq([i \in 1..Len(raw) |-> i],
                          LAMBDA i : ~(/\ raw[i] = "\r"
                                       /\ i < Len(raw)
                                       /\ raw[i + 1] = "\n"))
    IN  [k \in 1..Len(kept) |->
            IF raw[kept[k]] = "\r" THEN "\n" ELSE raw[kept[k]]]

\* os.linesep of the platform the script runs on
LineSeps == {<<"\n">>, <<"\r", "\n">>}

\* f.write() in text mode: every "\n" is written as os.linesep
RECURSIVE WriteText(_, _)
WriteText(text, linesep) ==
    IF text = <<>> THEN <<>>
    ELSE IF Len(text) = 1
         THEN (IF text[1] = "\n" THEN linesep ELSE text)
         ELSE LET half == Len(text) \div 2
              IN  WriteText(SubSeq(text, 1, half), linesep)
                  \o WriteText(SubSeq(text, half + 1, Len(text)), linesep)

\* what a write that fails part-way can leave on disk: nothing, or a prefix
PartialWrites(raw) == {SubSeq(raw, 1, n) : n \in {0, Len(raw) \div 2}}

\* ------------------------------------------------------------------------
\* Documents the model is run on
\* ------------------------------------------------------------------------
\* a document is made of at most MaxUnits units
MaxUnits == 4

RECURSIVE Concat(_)
Concat(us) == IF us = <<>> THEN <<>> ELSE Head(us) \o Concat(Tail(us))

DocsOver(units) ==
    {Concat(us) : us \in UNION {[1..n -> units] : n \in 0..MaxUnits}}

\* the units: an end marker, a start marker cut in two after "{/* Right",
\* and a complete block of each descriptor spanning three lines
END_TIGHT == CLOSE_DIV \o CLOSE_DIV
OptPre == SubSeq(OPT_START, 1, 9)
OptSuf == SubSeq(OPT_START, 10, Len(OPT_START))
OptBlock ==
    OPT_START \o <<"\n", "a">> \o CLOSE_DIV \o <<"\n">> \o CLOSE_DIV
FbBlock ==
    FB_START \o <<"\n", "b">> \o CLOSE_DIV \o <<"\n">> \o CLOSE_DIV

\* markers, closing tags, whitespace and other text in any order
PlainUnits == {OPT_START, FB_START, CLOSE_DIV, <<"\n", " ">>, <<"x">>}
\* whole blocks and end markers between the two pieces of a start marker
SplitUnits == {OptPre, OptSuf, OptBlock, FbBlock, END_TIGHT}
\* what the page on disk is made of
FileUnits == {OptBlock, FbBlock, END_TIGHT, <<"x", "\r", "\n">>}

CallDocs == DocsOver(PlainUnits) \cup DocsOver(SplitUnits)
FileDocs == DocsOver(FileUnits)

\* ------------------------------------------------------------------------
\* State
\* ------------------------------------------------------------------------
VARIABLES
    pc,       \* position in main(), or in a caller of the two functions
    file,     \* characters stored at file_path
    content,  \* the local variable content
    stdout,   \* the lines printed so far, as <<text, number>>
    opens,    \* how many times file_path was opened for writing
    calls,    \* history: the removal functions called so far, in order
    trail     \* history: the argument of the first call and every result

vars == <<pc, file, content, stdout, opens, calls, trail>>

\* the script is run (main), or the module is imported and its two
\* functions are called on a document
Init ==
    /\ stdout = <<>>
    /\ opens = 0
    /\ calls = <<>>
    /\ \/ /\ pc = "read"
          /\ file \in FileDocs
          /\ content = <<>>
          /\ trail = <<>>
       \/ /\ pc = "call1"
          /\ file = <<>>
          /\ content \in CallDocs
          /\ trail = <<content>>

\* ------------------------------------------------------------------------
\* main()
\* ------------------------------------------------------------------------

\* with open(file_path, 'r', encoding='utf-8') as f: content = f.read()
Read ==
    /\ pc = "read"
    /\ content' = ReadText(file)
    /\ trail' = <<content'>>
    /\ pc' = "print_original"
    /\ UNCHANGED <<file, stdout, opens, calls>>

\* variant: the file opened with mode 'w+', a failed read leaves it empty
ReadFailTruncating ==
    /\ pc = "read"
    /\ file' = <<>>
    /\ pc' = "read_failed"
    /\ UNCHANGED <<content, stdout, opens, calls, trail>>

\* the open or the decoding raises: main ends with the exception
ReadFail ==
    /\ pc = "read"
    /\ pc' = "read_failed"
    /\ UNCHANGED <<file, content, stdout, opens, calls, trail>>

PrintOriginal ==
    /\ pc = "print_original"
    /\ stdout' = Append(stdout, <<"Original file size", Len(content)>>)
    /\ pc' = "remove_opt"
    /\ UNCHANGED <<file, content, opens, calls, trail>>

RemoveOpt ==
    /\ pc = "remove_opt"
    /\ content' = remove_optimization_result_section(content)
    /\ calls' = Append(calls, "opt")
    /\ trail' = Append(trail, content')
    /\ pc' = "print_after_opt"
    /\ UNCHANGED <<file, stdout, opens>>

PrintAfterOpt ==
    /\ pc = "print_after_opt"
    /\ stdout' = Append(stdout,
                        <<"After removing optimization result", Len(content)>>)
    /\ pc' = "remove_fb"
    /\ UNCHANGED <<file, content, opens, calls, trail>>

RemoveFb ==
    /\ pc = "remove_fb"
    /\ content' = remove_forecast_bands_section(content)
    /\ calls' = Append(calls, "fb")
    /\ trail' = Append(trail, content')
    /\ pc' = "print_after_fb"
    /\ UNCHANGED <<file, stdout, opens>>

PrintAfterFb ==
    /\ pc = "print_after_fb"
    /\ stdout' = Append(stdout,
                        <<"After removing forecast bands", Len(content)>>)
    /\ pc' = "open_write"
    /\ UNCHANGED <<file, content, opens, calls, trail>>

\* open(file_path, 'w', encoding='utf-8') truncates the file
OpenWrite ==
    /\ pc = "open_write"
    /\ file' = <<>>
    /\ opens' = opens + 1
    /\ pc' = "write"
    /\ UNCHANGED <<content, stdout, calls, trail>>

\* the open raises: the file is as it was
OpenWriteFail ==
    /\ pc = "open_write"
    /\ pc' = "open_failed"
    /\ UNCHANGED <<file, content, stdout, opens, calls, trail>>

\* f.write(content) and the close at the end of the with block
Write ==
    /\ pc = "write"
    /\ \E linesep \in LineSeps : file' = WriteText(content, linesep)
    /\ pc' = "print_success"
    /\ UNCHANGED <<content, stdout, opens, calls, trail>>

\* the write or the flush raises
WriteFail ==
    /\ pc = "write"
    /\ \E linesep \in LineSeps :
          file' \in PartialWrites(WriteText(content, linesep))
    /\ pc' = "write_failed"
    /\ UNCHANGED <<content, stdout, opens, calls, trail>>

PrintSuccess ==
    /\ pc = "print_success"
    /\ stdout' = Append(stdout, <<"Successfully removed both sections!", 0>>)
    /\ pc' = "done"
    /\ UNCHANGED <<file, content, opens, calls, trail>>

main ==
    \/ Read \/ ReadFail
    \/ PrintOriginal \/ RemoveOpt \/ PrintAfterOpt \/ RemoveFb \/ PrintAfterFb
    \/ OpenWrite \/ OpenWriteFail \/ Write \/ WriteFail
    \/ PrintSuccess

\* ------------------------------------------------------------------------
\* A caller of the module's two functions: two calls, in either order
\* ------------------------------------------------------------------------
AfterCall(p) == IF p = "call1" THEN "call2" ELSE "returned"

CallOpt ==
    /\ pc \in {"call1", "call2"}
    /\ content' = remove_optimization_result_section(content)
    /\ calls' = Append(calls, "opt")
    /\ trail' = Append(trail, content')
    /\ pc' = AfterCall(pc)
    /\ UNCHANGED <<file, stdout, opens>>

CallFb ==
    /\ pc \in {"call1", "call2"}
    /\ content' = remove_forecast_bands_section(content)
    /\ calls' = Append(calls, "fb")
    /\ trail' = Append(trail, content')
    /\ pc' = AfterCall(pc)
    /\ UNCHANGED <<file, stdout, opens>>

Next == main \/ CallOpt \/ CallFb

Spec == Init /\ [][Next]_vars

\* ------------------------------------------------------------------------
\* Vocabulary of the properties: plain substring search, written without
\* the regular-expression engine above
\* ------------------------------------------------------------------------
StartOf(fn) == IF fn = "opt" THEN OPT_START ELSE FB_START

HasAt(lit, s, i) ==
    /\ i >= 1
    /\ i + Len(lit) - 1 <= Len(s)
    /\ SubSeq(s, i, i + Len(lit) - 1) = lit

Positions(lit, s) ==
    {i \in 1..(Len(s) - Len(lit) + 1) : s[i] = lit[1] /\ HasAt(lit, s, i)}

Occurs(lit, s) == Positions(lit, s) # {}

AllSpace(s, lo, hi) == \A k \in lo..hi : s[k] \in Whitespace

\* the occurrences of the end marker, two closing tags with nothing but
\* whitespace between them: <<first position, position after the last>>
EndOccs(s) ==
    LET tags == Positions(CLOSE_DIV, s)
    IN  {<<p[1], p[2] + Len(CLOSE_DIV)>> : p \in
            {p \in tags \X tags :
                /\ p[2] >= p[1] + Len(CLOSE_DIV)
                /\ AllSpace(s, p[1] + Len(CLOSE_DIV), p[2] - 1)}}

\* the end-marker occurrences that begin at or after position p
EndsFrom(s, p) == {oc \in EndOccs(s) : oc[1] >= p}

\* the one that begins first
Nearest(ocs) == CHOOSE oc \in ocs : \A other \in ocs : oc[1] <= other[1]

\* s without its trailing whitespace
RStrip(s) ==
    LET keep == {n \in 0..Len(s) : AllSpace(s, n + 1, Len(s))}
    IN  SubSeq(s, 1, Smallest(keep))

Drop(s, p) == SubSeq(s, p, Len(s))

\* the first block of a descriptor at or after position from:
\* <<position of its start marker, position after its end marker>>,
\* <<0, 0>> when no start marker there is followed by an end marker
FirstBlock(start, s, from) ==
    LET ks == {k \in Positions(start, s) : k >= from}
    IN  IF ks = {} THEN <<0, 0>>
        ELSE LET k == Smallest(ks)
                 ends == EndsFrom(s, k + Len(start))
             IN  IF ends = {} THEN <<0, 0>> ELSE <<k, Nearest(ends)[2]>>

\* s from position from on with the first block deleted, together with the
\* whitespace before its start marker; the rest kept as it is
RECURSIVE WithoutBlocks(_, _, _, _)
WithoutBlocks(start, s, from, onlyFirst) ==
    LET b == FirstBlock(start, s, from)
    IN  IF b[1] = 0 THEN Drop(s, from)
        ELSE RStrip(SubSeq(s, from, b[1] - 1))
             \o (IF onlyFirst THEN Drop(s, b[2])
                 ELSE WithoutBlocks(start, s, b[2], FALSE))

\* s has a complete block of the descriptor at or after position from
HasBlock(start, s, from) == FirstBlock(start, s, from)[1] # 0

\* the call that has just returned, as an index into calls and trail (every
\* call is the last one in the state it returns to)
Called ==
    IF pc \in {"call2", "returned", "print_after_opt", "print_after_fb"}
    THEN {Len(calls)} ELSE {}
Arg(i) == trail[i]
Result(i) == trail[i + 1]

\* ------------------------------------------------------------------------
\* C1
\* ------------------------------------------------------------------------
TwoBlocks(start, s) ==
    /\ HasBlock(start, s, 1)
    /\ HasBlock(start, s, FirstBlock(start, s, 1)[2])

\* C1 as stated: of two or more complete blocks of its descriptor, a removal
\* deletes the first one only; every later block is still in the result.
C1_OnlyFirstBlockRemoved ==
    \A i \in Called :
        TwoBlocks(StartOf(calls[i]), Arg(i)) =>
            Result(i) = WithoutBlocks(StartOf(calls[i]), Arg(i), 1, TRUE)

\* C1 as amended: of two or more complete blocks of its descriptor, a removal
\* deletes the first one and, scanning on from the end of each deleted block,
\* every later complete block as well (re.sub replaces all matches).
C1_EveryBlockRemoved ==
    \A i \in Called :
        TwoBlocks(StartOf(calls[i]), Arg(i)) =>
            Result(i) = WithoutBlocks(StartOf(calls[i]), Arg(i), 1, FALSE)

C1_Witness ==
    \E i \in Called :
        /\ TwoBlocks(StartOf(calls[i]), Arg(i))
        /\ Result(i) = WithoutBlocks(StartOf(calls[i]), Arg(i), 1, FALSE)
        /\ Result(i) # WithoutBlocks(StartOf(calls[i]), Arg(i), 1, TRUE)

\* ------------------------------------------------------------------------
\* C2
\* ------------------------------------------------------------------------

\* s = A + start + M + e + B: a start marker at position a, an end-marker
\* occurrence oc after it, and no end-marker occurrence inside M
IsSplit(start, s, a, oc) ==
    /\ a \in Positions(start, s)
    /\ oc \in EndsFrom(s, a + Len(start))
    /\ ~\E inner \in EndsFrom(s, a + Len(start)) : inner[2] <= oc[1]

\* A without its trailing whitespace, followed by the whole of B
SplitResult(s, a, oc) == RStrip(SubSeq(s, 1, a - 1)) \o Drop(s, oc[2])

\* C2 as stated: whenever D = A + s + M + e + B and M contains no end-marker
\* occurrence, the removal returns A (trailing whitespace stripped) + B.
C2_AnySplitRemoved ==
    \A i \in Called :
        \A a \in Positions(StartOf(calls[i]), Arg(i)) :
            \A oc \in EndsFrom(Arg(i), a + Len(StartOf(calls[i]))) :
                IsSplit(StartOf(calls[i]), Arg(i), a, oc) =>
                    Result(i) = SplitResult(Arg(i), a, oc)

\* the split is the one the removal finds: s is the first start marker of
\* D, e is the nearest end-marker occurrence after it (none begins inside M,
\* so M does not end with a </div> that pairs with the first </div> of e),
\* and B has no start marker followed by an end-marker occurrence
IsFirstSplit(start, s, a, oc) ==
    /\ IsSplit(start, s, a, oc)
    /\ a = Smallest(Positions(start, s))
    /\ oc = Nearest(EndsFrom(s, a + Len(start)))
    /\ ~HasBlock(start, s, oc[2])

\* C2 as amended: the same result, for the splits where s is the first start
\* marker of D, e the nearest end-marker occurrence after it, and B holds no
\* further complete block.
C2_FirstSplitRemoved ==
    \A i \in Called :
        \A a \in Positions(StartOf(calls[i]), Arg(i)) :
            \A oc \in EndsFrom(Arg(i), a + Len(StartOf(calls[i]))) :
                IsFirstSplit(StartOf(calls[i]), Arg(i), a, oc) =>
                    Result(i) = SplitResult(Arg(i), a, oc)

\* whitespace before the start marker is stripped, text follows the block
C2_Witness ==
    \E i \in Called :
        \E a \in Positions(StartOf(calls[i]), Arg(i)) :
            \E oc \in EndsFrom(Arg(i), a + Len(StartOf(calls[i]))) :
                /\ IsFirstSplit(StartOf(calls[i]), Arg(i), a, oc)
                /\ a > 1
                /\ Arg(i)[a - 1] \in Whitespace
                /\ oc[2] <= Len(Arg(i))
                /\ Result(i) = SplitResult(Arg(i), a, oc)

\* ------------------------------------------------------------------------
\* C3
\* ------------------------------------------------------------------------

\* the first start marker is followed by two or more end-marker occurrences
EndMarkerRecurs(start, s) ==
    /\ HasBlock(start, s, 1)
    /\ Cardinality(EndsFrom(s, FirstBlock(start, s, 1)[1] + Len(start))) >= 2

\* the text before the first start marker without its trailing whitespace,
\* then everything after the nearest end-marker occurrence
CutAtNearest(start, s) ==
    RStrip(SubSeq(s, 1, FirstBlock(start, s, 1)[1] - 1))
        \o Drop(s, FirstBlock(start, s, 1)[2])

\* C3 as stated: when the end marker recurs after a start marker, the deleted
\* span ends at the nearest occurrence and all text after it is unchanged.
C3_RestAlwaysKept ==
    \A i \in Called :
        EndMarkerRecurs(StartOf(calls[i]), Arg(i)) =>
            Result(i) = CutAtNearest(StartOf(calls[i]), Arg(i))

\* C3 as amended: the deleted span ends at the nearest end-marker occurrence,
\* and the text after it, later end markers included, is unchanged provided
\* that text holds no further complete block of the descriptor.
C3_StopsAtNearestEnd ==
    \A i \in Called :
        (/\ EndMarkerRecurs(StartOf(calls[i]), Arg(i))
         /\ ~HasBlock(StartOf(calls[i]), Arg(i),
                      FirstBlock(StartOf(calls[i]), Arg(i), 1)[2]))
        => Result(i) = CutAtNearest(StartOf(calls[i]), Arg(i))

\* a later end-marker occurrence has survived the removal
C3_Witness ==
    \E i \in Called :
        /\ EndMarkerRecurs(StartOf(calls[i]), Arg(i))
        /\ ~HasBlock(StartOf(calls[i]), Arg(i),
                     FirstBlock(StartOf(calls[i]), Arg(i), 1)[2])
        /\ Result(i) = CutAtNearest(StartOf(calls[i]), Arg(i))
        /\ EndOccs(Result(i)) # {}

\* ------------------------------------------------------------------------
\* C4
\* ------------------------------------------------------------------------
InMain == pc \notin {"call1", "call2", "returned"}

SizeLines == SelectSeq(stdout, LAMBDA line : line[1] # "Successfully removed both sections!")

\* C4: a removal returns a document without its start marker exactly as it
\* got it; and when the text main reads holds neither start marker, every
\* size it reports is the size of that text and what it writes is that text.
C4_AbsentMarkerNoChange ==
    /\ \A i \in Called :
          ~Occurs(StartOf(calls[i]), Arg(i)) => Result(i) = Arg(i)
    /\ (/\ InMain
        /\ trail # <<>>
        /\ ~Occurs(OPT_START, trail[1])
        /\ ~Occurs(FB_START, trail[1]))
       => /\ content = trail[1]
          /\ \A n \in 1..Len(SizeLines) : SizeLines[n][2] = Len(trail[1])
          /\ pc \in {"print_success", "done"} =>
                \E linesep \in LineSeps : file = WriteText(trail[1], linesep)

\* main has run to its end on a text with end markers and whitespace but no
\* start marker
C4_Witness ==
    /\ pc = "done"
    /\ Len(SizeLines) = 3
    /\ trail[1] # <<>>
    /\ ~Occurs(OPT_START, trail[1])
    /\ ~Occurs(FB_START, trail[1])
    /\ EndOccs(trail[1]) # {}
    /\ trail[1][Len(trail[1])] \in Whitespace

\* ------------------------------------------------------------------------
\* C8
\* ------------------------------------------------------------------------

\* the start marker occurs, and no occurrence of it has an end-marker
\* occurrence after it
Unterminated(start, s) ==
    /\ Occurs(start, s)
    /\ \A a \in Positions(start, s) : EndsFrom(s, a + Len(start)) = {}

\* C8: a document whose start marker is never followed by an end-marker
\* occurrence is returned unchanged, the whitespace before the marker too.
C8_UnterminatedNoChange ==
    \A i \in Called :
        Unterminated(StartOf(calls[i]), Arg(i)) => Result(i) = Arg(i)

\* whitespace, the start marker, and a single closing tag after it
C8_Witness ==
    \E i \in Called :
        /\ Unterminated(StartOf(calls[i]), Arg(i))
        /\ Result(i) = Arg(i)
        /\ \E a \in Positions(StartOf(calls[i]), Arg(i)) :
              /\ a > 1
              /\ Arg(i)[a - 1] \in Whitespace
              /\ \E t \in Positions(CLOSE_DIV, Arg(i)) : t > a

\* ------------------------------------------------------------------------
\* C5
\* ------------------------------------------------------------------------

\* one occurrence of each start marker, each with an end-marker occurrence
\* after it, and the two blocks apart from each other
OneBlockEach(s) ==
    /\ Cardinality(Positions(OPT_START, s)) = 1
    /\ Cardinality(Positions(FB_START, s)) = 1
    /\ HasBlock(OPT_START, s, 1)
    /\ HasBlock(FB_START, s, 1)
    /\ \/ FirstBlock(OPT_START, s, 1)[2] <= FirstBlock(FB_START, s, 1)[1]
       \/ FirstBlock(FB_START, s, 1)[2] <= FirstBlock(OPT_START, s, 1)[1]

\* the text outside the two blocks, in its order, less the whitespace
\* directly before each start marker
Outside(s) ==
    LET o == FirstBlock(OPT_START, s, 1)
        f == FirstBlock(FB_START, s, 1)
        b1 == IF o[1] < f[1] THEN o ELSE f
        b2 == IF o[1] < f[1] THEN f ELSE o
    IN  RStrip(SubSeq(s, 1, b1[1] - 1))
        \o RStrip(SubSeq(s, b1[2], b2[1] - 1))
        \o Drop(s, b2[2])

BothRemoved ==
    /\ pc \in {"returned", "print_after_fb"}
    /\ calls = <<"opt", "fb">>

\* C5 as stated: with one complete block of each descriptor, apart from each
\* other, the two removals in main's order leave neither start marker and
\* exactly the text outside the two blocks.
C5_BothBlocksGone ==
    (BothRemoved /\ OneBlockEach(trail[1])) =>
        /\ trail[3] = Outside(trail[1])
        /\ ~Occurs(OPT_START, trail[3])
        /\ ~Occurs(FB_START, trail[3])

\* C5 as amended: the same, for the documents whose text outside the two
\* blocks does not itself spell a start marker once the blocks are out.
C5_BothBlocksGoneUnlessJoined ==
    (/\ BothRemoved
     /\ OneBlockEach(trail[1])
     /\ ~Occurs(OPT_START, Outside(trail[1]))
     /\ ~Occurs(FB_START, Outside(trail[1])))
    => /\ trail[3] = Outside(trail[1])
       /\ ~Occurs(OPT_START, trail[3])
       /\ ~Occurs(FB_START, trail[3])

\* main has removed both blocks and kept text from around them
C5_Witness ==
    /\ pc = "print_after_fb"
    /\ calls = <<"opt", "fb">>
    /\ OneBlockEach(trail[1])
    /\ ~Occurs(OPT_START, Outside(trail[1]))
    /\ ~Occurs(FB_START, Outside(trail[1]))
    /\ trail[3] = Outside(trail[1])
    /\ Len(trail[3]) >= 2
    /\ Len(trail[3]) < Len(trail[2])
    /\ Len(trail[2]) < Len(trail[1])

\* ------------------------------------------------------------------------
\* C6
\* ------------------------------------------------------------------------

\* the blocks a removal deletes, each with the whitespace before its start
\* marker: <<first position, position after the last>>
RECURSIVE Blocks(_, _, _)
Blocks(start, s, from) ==
    LET b == FirstBlock(start, s, from)
    IN  IF b[1] = 0 THEN {}
        ELSE {<<from + Len(RStrip(SubSeq(s, from, b[1] - 1))), b[2]>>}
             \cup Blocks(start, s, b[2])

\* where the deleted blocks were, as positions in the text that is left: the
\* position of the first character after each block
JoinPoints(start, s) ==
    LET bs == Blocks(start, s, 1)
        Before(b) == {c \in bs : c[1] < b[1]}
        Sum(f, S) == LET RECURSIVE Acc(_)
                         Acc(T) == IF T = {} THEN 0
                                   ELSE LET c == CHOOSE c \in T : TRUE
                                        IN  f[c] + Acc(T \ {c})
                     IN  Acc(S)
        len == [c \in bs |-> c[2] - c[1]]
    IN  {b[1] - Sum(len, Before(b)) : b \in bs}

\* lit occurs in out across one of the positions in joins
Across(lit, out, joins) ==
    \E q \in Positions(lit, out) :
        \E p \in joins : q < p /\ p <= q + Len(lit) - 1

SameTwice ==
    /\ pc = "returned"
    /\ calls[1] = calls[2]

\* C6 as stated: applying a removal to its own result changes nothing.
C6_Idempotent ==
    SameTwice => trail[3] = trail[2]

\* C6 as amended: applying a removal to its own result changes nothing,
\* for every document in which the first application does not bring the
\* text before and after a deleted block together into a start marker.
C6_IdempotentUnlessJoined ==
    (/\ SameTwice
     /\ ~Across(StartOf(calls[1]), trail[2],
                JoinPoints(StartOf(calls[1]), trail[1])))
    => trail[3] = trail[2]

\* the first application deleted a block and left a start marker behind
C6_Witness ==
    /\ SameTwice
    /\ ~Across(StartOf(calls[1]), trail[2],
               JoinPoints(StartOf(calls[1]), trail[1]))
    /\ trail[2] # trail[1]
    /\ Occurs(StartOf(calls[1]), trail[2])
    /\ trail[3] = trail[2]

\* ------------------------------------------------------------------------
\* C9
\* ------------------------------------------------------------------------
OptThenFb ==
    /\ pc = "returned"
    /\ calls = <<"opt", "fb">>

\* C9 as stated: the two removals give the same result in either order.
C9_Commute ==
    OptThenFb =>
        trail[3] = remove_optimization_result_section(
                       remove_forecast_bands_section(trail[1]))

\* no block of one descriptor shares a character with a block of the other
BlocksApart(s) ==
    \A o \in Blocks(OPT_START, s, 1) :
        \A f \in Blocks(FB_START, s, 1) : o[2] <= f[1] \/ f[2] <= o[1]

\* neither removal, applied to s, brings text together into a start marker
NothingJoined(s) ==
    \A fn \in {"opt", "fb"} :
        \A lit \in {OPT_START, FB_START} :
            ~Across(lit, WithoutBlocks(StartOf(fn), s, 1, FALSE),
                    JoinPoints(StartOf(fn), s))

\* C9 as amended: the two removals give the same result in either order for
\* every document in which the blocks of the two descriptors are apart from
\* each other and neither removal joins text into a new start marker.
C9_CommuteWhenApart ==
    (OptThenFb /\ BlocksApart(trail[1]) /\ NothingJoined(trail[1])) =>
        trail[3] = remove_optimization_result_section(
                       remove_forecast_bands_section(trail[1]))

\* both removals deleted a block
C9_Witness ==
    /\ OptThenFb
    /\ BlocksApart(trail[1])
    /\ NothingJoined(trail[1])
    /\ trail[2] # trail[1]
    /\ trail[3] # trail[2]
    /\ trail[3] = remove_optimization_result_section(
                      remove_forecast_bands_section(trail[1]))

\* ------------------------------------------------------------------------
\* C10
\* ------------------------------------------------------------------------

\* how many characters s from position i and out from position o share
CommonPrefix(s, i, out, o) ==
    LET m == IF Len(s) - i < Len(out) - o
             THEN Len(s) - i + 1 ELSE Len(out) - o + 1
    IN  Smallest({k \in 0..m : k = m \/ s[i + k] # out[o + k]})

\* out from position o on is s from position i on with zero or more spans
\* deleted, each holding a start marker (one of starts) and ending with an
\* end-marker occurrence (one of ends)
RECURSIVE IsDeletion(_, _, _, _, _, _, _)
IsDeletion(starts, width, ends, s, i, out, o) ==
    \/ Drop(s, i) = Drop(out, o)
    \/ \E p \in i..(i + CommonPrefix(s, i, out, o)) :
          \E oc \in ends :
              /\ oc[1] >= p
              /\ \E a \in starts : a >= p /\ a + width <= oc[2]
              /\ Len(s) - oc[2] >= Len(out) - (o + p - i)
              /\ IsDeletion(starts, width, ends, s, oc[2], out, o + p - i)

OnlyDeletes(start, s, out) ==
    IsDeletion(Positions(start, s), Len(start), EndOccs(s), s, 1, out, 1)

\* C10: a removal's result is its argument with zero or more spans deleted,
\* each holding the descriptor's start marker and ending with two closing
\* tags, nothing inserted, changed or moved; the sizes main prints never grow.
C10_OnlyDeletes ==
    /\ \A i \in Called : OnlyDeletes(StartOf(calls[i]), Arg(i), Result(i))
    /\ \A n \in 1..Len(SizeLines) : \A m \in n..Len(SizeLines) :
          SizeLines[n][2] >= SizeLines[m][2]

\* main has printed three sizes, each smaller than the one before
C10_Witness ==
    /\ pc = "done"
    /\ Len(SizeLines) = 3
    /\ SizeLines[1][2] > SizeLines[2][2]
    /\ SizeLines[2][2] > SizeLines[3][2]
    /\ SizeLines[3][2] > 0
    /\ OnlyDeletes(OPT_START, trail[1], trail[2])
    /\ OnlyDeletes(FB_START, trail[2], trail[3])

\* ------------------------------------------------------------------------
\* C7
\* ------------------------------------------------------------------------
Lines ==
    << "Original file size",
       "After removing optimization result",
       "After removing forecast bands",
       "Successfully removed both sections!" >>

\* the lines printed are the first lines of Lines, in that order
InOrder(out) ==
    /\ Len(out) <= Len(Lines)
    /\ \A n \in 1..Len(out) : out[n][1] = Lines[n]

\* C7: every step of main keeps to this order: the file is opened for
\* writing at most once, and it is opened and written only after the read
\* and both removals; a failed read is the end of the run, with the file as
\* it was and nothing printed; the lines come in the order original, after
\* results removal, after bands removal, success; and the success message is
\* printed only when the write has completed.
C7_WriteLastAndOnce ==
    [][InMain =>
          /\ opens' <= 1
          /\ (opens' # opens \/ file' # file) =>
                /\ pc \in {"open_write", "write"}
                /\ calls = <<"opt", "fb">>
                /\ content = trail[3]
          /\ pc # "read_failed"
          /\ pc' = "read_failed" =>
                /\ file' = file
                /\ opens' = 0
                /\ stdout' = <<>>
          /\ InOrder(stdout')
          /\ \A n \in 1..Len(SizeLines') : SizeLines'[n][2] = Len(trail'[n])
          /\ Len(stdout') = Len(Lines) =>
                /\ pc = "print_success"
                /\ opens = 1
                /\ \E linesep \in LineSeps : file = WriteText(content, linesep)
      ]_vars

\* main has run to its end and changed the file
C7_Witness ==
    /\ pc = "done"
    /\ Len(stdout) = Len(Lines)
    /\ opens = 1
    /\ content # trail[1]
    /\ \E linesep \in LineSeps : file = WriteText(content, linesep)
====
